---- MODULE Spec2Model ----
(***************************************************************************)
(* Model of the indicator library of libstat-rs (src/analysis).            *)
(*                                                                         *)
(* Every function of the library is a pure function over f64.  The model   *)
(* keeps the arithmetic of f64: binary floating point with a bounded       *)
(* significand, round-to-nearest-even, gradual underflow, overflow to an   *)
(* infinity, and NaN.  The format is scaled down (MantBits bits of         *)
(* significand instead of 53) so that the values can be enumerated.        *)
(*                                                                         *)
(* A finite float is the integer number of quanta it holds, one quantum    *)
(* being 2^-FracBits; the three special values are integers outside the    *)
(* finite range.  The sign of zero is not modelled: -0.0 compares equal to *)
(* 0.0 and no division of the library can have a zero divisor.             *)
(***************************************************************************)
EXTENDS Integers, Sequences, FiniteSets, TLC

VARIABLES call, res, chain

vars == <<call, res, chain>>

(***************************************************************************)
(* Bounds of the float format and of the enumerated inputs.                *)
(***************************************************************************)
MantBits == 5
FracBits == 2
MaxExp == 10
InMax == 13
SeqMax == 2
MaxLen == 3
ChainMax == 3
ChainLen == 2
MaxSteps == 3

(***************************************************************************)
(* f64                                                                     *)
(***************************************************************************)
Scale == 2^FracBits
MaxFinite == (2^MantBits - 1) * 2^MaxExp
PInf == MaxFinite + 1
NInf == 0 - PInf
NaN == MaxFinite + 2

IsNaN(x) == x = NaN
IsInf(x) == x = PInf \/ x = NInf
IsFinite(x) == x >= 0 - MaxFinite /\ x <= MaxFinite

Abs(x) == IF x < 0 THEN 0 - x ELSE x
Sign(x) == IF x < 0 THEN 0 - 1 ELSE IF x > 0 THEN 1 ELSE 0

\* The exponent of the binade of n/d: the least e >= 0 with n/d < 2^(MantBits+e).
RECURSIVE ExpOf(_, _, _)
ExpOf(n, d, e) == IF n < 2^(MantBits + e) * d THEN e ELSE ExpOf(n, d, e + 1)

\* num/den quanta (den > 0) rounded to the nearest float, ties to even,
\* overflowing to an infinity.
Round(num, den) ==
    LET a == Abs(num)
        e == ExpOf(a, den, 0)
        d == den * 2^e
        q == a \div d
        r == a % d
        s == IF 2 * r > d \/ (2 * r = d /\ q % 2 = 1) THEN q + 1 ELSE q
        m == s * 2^e
    IN  IF m > MaxFinite
        THEN (IF num < 0 THEN NInf ELSE PInf)
        ELSE (IF num < 0 THEN 0 - m ELSE m)

IsFloat(m) == IsFinite(m) /\ Round(m, 1) = m

FNeg(a) == IF IsNaN(a) THEN NaN ELSE 0 - a

FAdd(a, b) ==
    IF IsNaN(a) \/ IsNaN(b) THEN NaN
    ELSE IF IsInf(a) THEN (IF IsInf(b) /\ a # b THEN NaN ELSE a)
    ELSE IF IsInf(b) THEN b
    ELSE Round(a + b, 1)

FSub(a, b) == FAdd(a, FNeg(b))

FMul(a, b) ==
    IF IsNaN(a) \/ IsNaN(b) THEN NaN
    ELSE IF IsInf(a) \/ IsInf(b)
         THEN (IF a = 0 \/ b = 0 THEN NaN
               ELSE IF Sign(a) * Sign(b) < 0 THEN NInf ELSE PInf)
    ELSE Round(a * b, Scale)

FDiv(a, b) ==
    IF IsNaN(a) \/ IsNaN(b) THEN NaN
    ELSE IF IsInf(a)
         THEN (IF IsInf(b) THEN NaN
               ELSE IF Sign(a) * Sign(b) < 0 THEN NInf ELSE PInf)
    ELSE IF IsInf(b) THEN 0
    ELSE IF b = 0
         THEN (IF a = 0 THEN NaN ELSE IF a < 0 THEN NInf ELSE PInf)
    ELSE Round(a * Scale * Sign(b), Abs(b))

FLt(a, b) == ~IsNaN(a) /\ ~IsNaN(b) /\ a < b
FGt(a, b) == ~IsNaN(a) /\ ~IsNaN(b) /\ a > b
FEq(a, b) == ~IsNaN(a) /\ ~IsNaN(b) /\ a = b
FLe(a, b) == ~IsNaN(a) /\ ~IsNaN(b) /\ a <= b
FGe(a, b) == ~IsNaN(a) /\ ~IsNaN(b) /\ a >= b

\* `n as f64` and the literals of the source.
FromInt(n) == n * Scale
Zero == FromInt(0)
One == FromInt(1)
Two == FromInt(2)
Fifty == FromInt(50)
Hundred == FromInt(100)

(***************************************************************************)
(* analysis::Result<f64>                                                   *)
(***************************************************************************)
AnalysisError ==
    {"GainLessThanZero", "LossLessThanZero", "CloseGreaterThanHigh",
     "CloseLessThanLow", "HighLessThanLow", "SliceIsEmpty"}

Ok(v) == [ok |-> TRUE, val |-> v, err |-> "none"]
Err(e) == [ok |-> FALSE, val |-> NaN, err |-> e]

None == [some |-> FALSE, val |-> NaN]
Some(v) == [some |-> TRUE, val |-> v]

(***************************************************************************)
(* analysis::momentum                                                      *)
(***************************************************************************)
\* Slip: the ratio is subtracted from 1 instead of added to it.
rsi_ratio_subtracted(gain, loss) ==
    IF FLt(gain, Zero) THEN Err("GainLessThanZero")
    ELSE IF FLt(loss, Zero) THEN Err("LossLessThanZero")
    ELSE Ok(IF FEq(loss, Zero)
            THEN Hundred
            ELSE FSub(Hundred, FDiv(Hundred, FSub(One, FDiv(gain, loss)))))

\* Slip: the 1 of the denominator is forgotten.
rsi_without_one(gain, loss) ==
    IF FLt(gain, Zero) THEN Err("GainLessThanZero")
    ELSE IF FLt(loss, Zero) THEN Err("LossLessThanZero")
    ELSE Ok(IF FEq(loss, Zero)
            THEN Hundred
            ELSE FSub(Hundred, FDiv(Hundred, FDiv(gain, loss))))

relative_strength_index(gain, loss) ==
    IF FLt(gain, Zero) THEN Err("GainLessThanZero")
    ELSE IF FLt(loss, Zero) THEN Err("LossLessThanZero")
    ELSE Ok(IF FEq(loss, Zero)
            THEN Hundred
            ELSE FSub(Hundred, FDiv(Hundred, FAdd(One, FDiv(gain, loss)))))

\* Slip: close > high is checked before high < low.
stochastic_close_first(close, high, low) ==
    IF FGt(close, high) THEN Err("CloseGreaterThanHigh")
    ELSE IF FLt(high, low) THEN Err("HighLessThanLow")
    ELSE IF FLt(close, low) THEN Err("CloseLessThanLow")
    ELSE Ok(IF FEq(high, low)
            THEN Fifty
            ELSE FDiv(FMul(Hundred, FSub(close, low)), FSub(high, low)))

stochastic_oscillator(close, high, low) ==
    IF FLt(high, low) THEN Err("HighLessThanLow")
    ELSE IF FGt(close, high) THEN Err("CloseGreaterThanHigh")
    ELSE IF FLt(close, low) THEN Err("CloseLessThanLow")
    ELSE Ok(IF FEq(high, low)
            THEN Fifty
            ELSE FDiv(FMul(Hundred, FSub(close, low)), FSub(high, low)))

williams_percent_r(close, high, low) ==
    IF FLt(high, low) THEN Err("HighLessThanLow")
    ELSE IF FGt(close, high) THEN Err("CloseGreaterThanHigh")
    ELSE IF FLt(close, low) THEN Err("CloseLessThanLow")
    ELSE Ok(IF FEq(high, low)
            THEN FNeg(Fifty)
            ELSE FDiv(FMul(FNeg(Hundred), FSub(high, close)), FSub(high, low)))

(***************************************************************************)
(* analysis::trend                                                         *)
(***************************************************************************)
\* slice.iter().fold(acc, |sum, x| sum + x)
RECURSIVE Fold(_, _)
Fold(acc, s) == IF s = <<>> THEN acc ELSE Fold(FAdd(acc, Head(s)), Tail(s))

\* Slip: the sum misses the first element.
sma_skips_first(slice) ==
    LET length == Len(slice)
    IN  IF length = 0 THEN Err("SliceIsEmpty")
        ELSE Ok(FDiv(Fold(Zero, Tail(slice)), FromInt(length)))

simple_moving_average(slice) ==
    LET length == Len(slice)
    IN  IF length = 0 THEN Err("SliceIsEmpty")
        ELSE Ok(FDiv(Fold(Zero, slice), FromInt(length)))

\* Slip: an absent previous value is smoothed as a previous value of 0.
ema_none_as_zero(slice, old) ==
    LET length == Len(slice)
        ema == IF old.some THEN old.val ELSE Zero
    IN  IF length = 0 THEN Err("SliceIsEmpty")
        ELSE Ok(FAdd(FDiv(FMul(FSub(slice[length], ema), Two),
                          FAdd(One, FromInt(length))),
                     ema))

\* Slip: the first element of the slice is smoothed instead of the last.
ema_first_element(slice, old) ==
    LET length == Len(slice)
    IN  IF length = 0 THEN Err("SliceIsEmpty")
        ELSE IF old.some
             THEN Ok(FAdd(FDiv(FMul(FSub(slice[1], old.val), Two),
                               FAdd(One, FromInt(length))),
                          old.val))
             ELSE simple_moving_average(slice)

\* Slip: the weighting factor is 2 / n instead of 2 / (1 + n).
ema_weight_without_one(slice, old) ==
    LET length == Len(slice)
    IN  IF length = 0 THEN Err("SliceIsEmpty")
        ELSE IF old.some
             THEN Ok(FAdd(FDiv(FMul(FSub(slice[length], old.val), Two),
                               FromInt(length)),
                          old.val))
             ELSE simple_moving_average(slice)

exponential_moving_average(slice, old) ==
    LET length == Len(slice)
    IN  IF length = 0 THEN Err("SliceIsEmpty")
        ELSE IF old.some
             THEN Ok(FAdd(FDiv(FMul(FSub(slice[length], old.val), Two),
                               FAdd(One, FromInt(length))),
                          old.val))
             ELSE simple_moving_average(slice)

(***************************************************************************)
(* The inputs a caller passes.                                             *)
(***************************************************************************)
Big == 2^(MantBits + 1)
Specials == {PInf, NInf, NaN}
Extremes == {Big, 0 - Big, MaxFinite, 0 - MaxFinite}
Near(k) == {m \in (0 - k)..k : IsFloat(m)}

Scalars == Near(InMax) \cup Extremes \cup Specials
Elems == Near(SeqMax) \cup Extremes \cup Specials
Olds == {None} \cup {Some(v) : v \in Elems}

RECURSIVE SeqsOf(_, _)
SeqsOf(S, n) ==
    IF n = 0 THEN {<<>>}
    ELSE LET shorter == SeqsOf(S, n - 1)
         IN  shorter \cup {Append(s, x) : s \in {t \in shorter : Len(t) = n - 1}, x \in S}

Slices == SeqsOf(Elems, MaxLen)

(***************************************************************************)
(* A caller: one call at a time, the arguments and the outcome observed.   *)
(***************************************************************************)
NoCall == [fn |-> "none"]
NoRes == [ok |-> FALSE, val |-> NaN, err |-> "none"]
NoChain == [steps |-> 0 - 1]

Init ==
    /\ call = NoCall
    /\ res = NoRes
    /\ chain = NoChain

CallRSI ==
    /\ call = NoCall
    /\ \E gain \in Scalars, loss \in Scalars :
         /\ call' = [fn |-> "relative_strength_index", gain |-> gain, loss |-> loss]
         /\ res' = relative_strength_index(gain, loss)
    /\ UNCHANGED chain

CallStochastic ==
    /\ call = NoCall
    /\ \E close \in Scalars, high \in Scalars, low \in Scalars :
         /\ call' = [fn |-> "stochastic_oscillator",
                     close |-> close, high |-> high, low |-> low]
         /\ res' = stochastic_oscillator(close, high, low)
    /\ UNCHANGED chain

CallWilliams ==
    /\ call = NoCall
    /\ \E close \in Scalars, high \in Scalars, low \in Scalars :
         /\ call' = [fn |-> "williams_percent_r",
                     close |-> close, high |-> high, low |-> low]
         /\ res' = williams_percent_r(close, high, low)
    /\ UNCHANGED chain

CallSMA ==
    /\ call = NoCall
    /\ \E slice \in Slices :
         /\ call' = [fn |-> "simple_moving_average", slice |-> slice]
         /\ res' = simple_moving_average(slice)
    /\ UNCHANGED chain

CallEMA ==
    /\ call = NoCall
    /\ \E slice \in Slices, old \in Olds :
         /\ call' = [fn |-> "exponential_moving_average", slice |-> slice, old |-> old]
         /\ res' = exponential_moving_average(slice, old)
    /\ UNCHANGED chain

Return ==
    /\ call # NoCall
    /\ call' = NoCall
    /\ res' = NoRes
    /\ UNCHANGED chain

Next ==
    \/ CallRSI
    \/ CallStochastic
    \/ CallWilliams
    \/ CallSMA
    \/ CallEMA
    \/ Return

Spec == Init /\ [][Next]_vars

(***************************************************************************)
(* A caller that builds a running EMA: it keeps the latest result and      *)
(* feeds it back as the previous value of the next call, window after      *)
(* window (the chain of tests::exponential_moving_average).  chain holds   *)
(* what the caller keeps: the running value prev, the arguments of the     *)
(* latest call that decide its result (old, last, n), the least and the    *)
(* greatest of the initial previous value and of the last elements seen    *)
(* (lo, hi), and whether every step so far was an ExactStep.               *)
(***************************************************************************)
ChainVals == Near(ChainMax) \cup Extremes
\* The windows end with any of the values; the elements before the last one,
\* which the smoothing does not read, are drawn from two values only.
History == {0 - Big, ChainMax}
Windows == {Append(h, x) : h \in SeqsOf(History, ChainLen - 1), x \in ChainVals}

FMin(a, b) == IF FLt(b, a) THEN b ELSE a
FMax(a, b) == IF FGt(b, a) THEN b ELSE a

\* last - old is computed without rounding and doubling it does not overflow.
ExactStep(last, old) ==
    /\ IsFinite(last)
    /\ IsFinite(old)
    /\ IsFloat(last - old)
    /\ Abs(2 * (last - old)) <= MaxFinite

InitChain ==
    /\ call = NoCall
    /\ res = NoRes
    /\ \E p \in ChainVals :
         chain = [steps |-> 0, prev |-> p, old |-> p, last |-> p, n |-> 0,
                  lo |-> p, hi |-> p, exact |-> TRUE]

FeedEMA ==
    /\ chain.steps < MaxSteps
    /\ \E slice \in Windows :
         LET r == exponential_moving_average(slice, Some(chain.prev))
         IN  /\ r.ok
             /\ chain' = [steps |-> chain.steps + 1,
                          prev |-> r.val,
                          old |-> chain.prev,
                          last |-> slice[Len(slice)],
                          n |-> Len(slice),
                          lo |-> FMin(chain.lo, slice[Len(slice)]),
                          hi |-> FMax(chain.hi, slice[Len(slice)]),
                          exact |-> chain.exact
                                      /\ ExactStep(slice[Len(slice)], chain.prev)]
    /\ UNCHANGED <<call, res>>

NextChain == FeedEMA

SpecChain == InitChain /\ [][NextChain]_vars

(***************************************************************************)
(* Properties of the momentum indicators.                                  *)
(***************************************************************************)
IsRSI == call.fn = "relative_strength_index"
IsStochastic == call.fn = "stochastic_oscillator"
IsWilliams == call.fn = "williams_percent_r"
IsSMA == call.fn = "simple_moving_average"
IsEMA == call.fn = "exponential_moving_average"

\* A finite input of everyday magnitude: no infinity, no NaN, far from overflow.
Ordinary(x) == IsFinite(x) /\ Abs(x) <= InMax
Moderate(x) == IsFinite(x) /\ Abs(x) <= Big

\* The outcome the documented order of the range checks gives for close, high, low.
RangeOutcome(close, high, low) ==
    IF FLt(high, low) THEN "HighLessThanLow"
    ELSE IF FGt(close, high) THEN "CloseGreaterThanHigh"
    ELSE IF FLt(close, low) THEN "CloseLessThanLow"
    ELSE "none"

RangeOrder ==
    (IsStochastic \/ IsWilliams) =>
        /\ res.err = RangeOutcome(call.close, call.high, call.low)
        /\ res.ok <=> (RangeOutcome(call.close, call.high, call.low) = "none")

\* C1 as stated: relative_strength_index returns GainLessThanZero whenever
\* gain < 0 and LossLessThanZero only when gain >= 0 and loss < 0; the two range
\* functions return the error of the first violated check in the order
\* high < low, close > high, close < low, and succeed otherwise.
C1_Original ==
    /\ IsRSI =>
          /\ FLt(call.gain, Zero) => res = Err("GainLessThanZero")
          /\ res.err = "LossLessThanZero" =>
                (FGe(call.gain, Zero) /\ FLt(call.loss, Zero))
    /\ RangeOrder

\* C1 amended: relative_strength_index returns GainLessThanZero exactly when
\* gain < 0, LossLessThanZero exactly when gain < 0 is false (gain >= 0 or gain
\* is NaN) and loss < 0, and succeeds otherwise; the two range functions return
\* the error of the first violated check in the order high < low, close > high,
\* close < low, and succeed otherwise.
C1_ValidationOrder ==
    /\ IsRSI =>
          /\ (res.err = "GainLessThanZero") <=> FLt(call.gain, Zero)
          /\ (res.err = "LossLessThanZero") <=>
                (~FLt(call.gain, Zero) /\ FLt(call.loss, Zero))
          /\ res.ok <=> (~FLt(call.gain, Zero) /\ ~FLt(call.loss, Zero))
    /\ RangeOrder

\* Several checks are violated at once and the first one in the order wins.
C1_Witness ==
    /\ IsStochastic
    /\ FLt(call.high, call.low)
    /\ FGt(call.close, call.high)
    /\ res = Err("HighLessThanLow")

C3_Original ==
    (IsRSI /\ FGe(call.gain, Zero) /\ FGe(call.loss, Zero)
           /\ FEq(call.gain, call.loss)) =>
        res = Ok(Fifty)

\* C3 amended: for finite gain == loss > 0 the index is 50; for
\* gain == loss == 0 it is 100.
C3_EqualGainLoss ==
    (IsRSI /\ IsFinite(call.gain) /\ FEq(call.gain, call.loss)) =>
        /\ FGt(call.gain, Zero) => res = Ok(Fifty)
        /\ FEq(call.gain, Zero) => res = Ok(Hundred)

C3_Witness ==
    /\ IsRSI
    /\ IsFinite(call.gain)
    /\ FGt(call.gain, Zero)
    /\ FEq(call.gain, call.loss)
    /\ res = Ok(Fifty)

\* C4 as stated, on finite inputs of everyday magnitude: for
\* low <= close <= high stochastic_oscillator succeeds with a value in
\* [0, 100], exactly 50 when high == low.
C4_Original ==
    (IsStochastic /\ Ordinary(call.close) /\ Ordinary(call.high)
                  /\ Ordinary(call.low)
                  /\ FLe(call.low, call.close) /\ FLe(call.close, call.high)) =>
        /\ res.ok
        /\ FGe(res.val, Zero)
        /\ FLe(res.val, Hundred)
        /\ FEq(call.high, call.low) => res.val = Fifty

\* C5 as stated, on finite inputs of everyday magnitude: for
\* low <= close <= high williams_percent_r succeeds with a value in
\* [-100, 0], exactly -50 when high == low.
C5_Original ==
    (IsWilliams /\ Ordinary(call.close) /\ Ordinary(call.high)
                /\ Ordinary(call.low)
                /\ FLe(call.low, call.close) /\ FLe(call.close, call.high)) =>
        /\ res.ok
        /\ FGe(res.val, FNeg(Hundred))
        /\ FLe(res.val, Zero)
        /\ FEq(call.high, call.low) => res.val = FNeg(Fifty)
(***************************************************************************)
(* Properties of the trend indicators.                                     *)
(***************************************************************************)
Last(s) == s[Len(s)]

\* The slice with its elements taken in the order p, a permutation of 1..Len(s).
Reorder(s, p) == [i \in 1..Len(s) |-> s[p[i]]]
Orders(s) == Permutations(1..Len(s))

\* The sum of the first i elements of s, accumulated from the first one on,
\* each addition rounded.
PartialSum(s, i) ==
    LET sum[k \in 0..i] == IF k = 0 THEN Zero ELSE FAdd(sum[k - 1], s[k])
    IN  sum[i]

\* C6 as stated, on finite elements of everyday magnitude:
\* simple_moving_average returns SliceIsEmpty exactly when the sequence is
\* empty, and for a non-empty sequence a mean that does not depend on the
\* order of the elements.
C6_Original ==
    (IsSMA /\ \A i \in 1..Len(call.slice) : Moderate(call.slice[i])) =>
        /\ (call.slice = <<>>) <=> (res = Err("SliceIsEmpty"))
        /\ call.slice # <<>> =>
              /\ res.ok
              /\ \A p \in Orders(call.slice) :
                    simple_moving_average(Reorder(call.slice, p)) = res

\* C6 amended: simple_moving_average returns SliceIsEmpty exactly when the
\* sequence is empty, and for a non-empty sequence the sum of the elements,
\* accumulated from the first to the last with every addition rounded, divided
\* by their count; the result does not depend on the order of the elements
\* for sequences of at most two elements (for longer ones it can).
C6_Mean ==
    IsSMA =>
        /\ (call.slice = <<>>) <=> (res = Err("SliceIsEmpty"))
        /\ call.slice # <<>> =>
              /\ res = Ok(FDiv(PartialSum(call.slice, Len(call.slice)),
                               FromInt(Len(call.slice))))
              /\ Len(call.slice) <= 2 =>
                    \A p \in Orders(call.slice) :
                        simple_moving_average(Reorder(call.slice, p)) = res

C6_Witness ==
    /\ IsSMA
    /\ Len(call.slice) >= 2
    /\ \A i \in 1..Len(call.slice) : IsFinite(call.slice[i])
    /\ \E i, j \in 1..Len(call.slice) : call.slice[i] # call.slice[j]
    /\ res.ok
    /\ IsFinite(res.val)
    /\ res.val # Zero

\* C7: for every sequence, empty or not, exponential_moving_average without a
\* previous value has the outcome of simple_moving_average on that sequence.
C7_NoneIsSMA ==
    (IsEMA /\ ~call.old.some) => res = simple_moving_average(call.slice)

C7_Witness ==
    /\ IsEMA
    /\ ~call.old.some
    /\ Len(call.slice) >= 2
    /\ res.ok
    /\ IsFinite(res.val)
    /\ res.val # Last(call.slice)
    /\ res = simple_moving_average(call.slice)

\* The weighting factor k = 2 / (1 + n).
Weight(n) == FDiv(Two, FAdd(One, FromInt(n)))

\* C8 as stated, on finite inputs of everyday magnitude: with a previous value old the function
\* returns SliceIsEmpty on the empty sequence and otherwise
\* (last - old) * k + old with k = 2 / (1 + n); for n = 1 the result is
\* exactly the single element.
C8_Original ==
    (IsEMA /\ call.old.some /\ Moderate(call.old.val)
           /\ \A i \in 1..Len(call.slice) : Moderate(call.slice[i])) =>
        /\ call.slice = <<>> => res = Err("SliceIsEmpty")
        /\ call.slice # <<>> =>
              res = Ok(FAdd(FMul(FSub(Last(call.slice), call.old.val),
                                 Weight(Len(call.slice))),
                            call.old.val))
        /\ Len(call.slice) = 1 => res = Ok(call.slice[1])

\* C8 amended: with a previous value old the function returns SliceIsEmpty on
\* the empty sequence and otherwise ((last - old) * 2) / (1 + n) + old, computed
\* in that order with every operation rounded; two sequences of equal length
\* with the same last element give the same result for the same old (each
\* gives the result of the sequence that repeats the last element); for
\* n = 1 the result is the single element whenever last - old is computed
\* without rounding and its double does not overflow.
C8_Smoothing ==
    (IsEMA /\ call.old.some) =>
        /\ call.slice = <<>> => res = Err("SliceIsEmpty")
        /\ call.slice # <<>> =>
              /\ res = Ok(FAdd(FDiv(FMul(FSub(Last(call.slice), call.old.val), Two),
                                    FAdd(One, FromInt(Len(call.slice)))),
                               call.old.val))
              /\ exponential_moving_average(
                     [i \in 1..Len(call.slice) |-> Last(call.slice)],
                     call.old) = res
        /\ (Len(call.slice) = 1 /\ ExactStep(call.slice[1], call.old.val)) =>
              res = Ok(call.slice[1])

C8_Witness ==
    /\ IsEMA
    /\ call.old.some
    /\ Len(call.slice) >= 2
    /\ IsFinite(call.old.val)
    /\ IsFinite(Last(call.slice))
    /\ call.slice[1] # Last(call.slice)
    /\ res.ok
    /\ res.val # call.old.val
    /\ res.val # Last(call.slice)

\* C9 as stated, on finite elements of everyday magnitude: on a non-empty
\* slice with a previous value of 0, exponential_moving_average returns the
\* simple moving average of the slice.
C9_Original ==
    (IsEMA /\ call.slice # <<>> /\ call.old = Some(Zero)
           /\ \A i \in 1..Len(call.slice) : Moderate(call.slice[i])) =>
        res = simple_moving_average(call.slice)
(***************************************************************************)
(* Properties of a running EMA.                                            *)
(***************************************************************************)
Fed == chain.steps >= 1

Between(x, a, b) == FLe(FMin(a, b), x) /\ FLe(x, FMax(a, b))

\* C10 as stated, on finite values of everyday magnitude: every result of the
\* chain lies between the previous value and the last element of the current
\* window (inclusive), so every result stays within the minimum and the
\* maximum of the initial previous value and the last elements processed so
\* far.
C10_Original ==
    (Fed /\ Moderate(chain.lo) /\ Moderate(chain.hi)) =>
        /\ (Moderate(chain.old) /\ Moderate(chain.last)) =>
              Between(chain.prev, chain.old, chain.last)
        /\ Between(chain.prev, chain.lo, chain.hi)

\* C10 amended: for a finite previous value and a finite last element, every
\* result of the chain lies on the side of the previous value on which the
\* last element of the current window lies, and it lies between the two
\* (inclusive) whenever last - previous is computed without rounding and its
\* double does not overflow; a chain all of whose steps are of that kind stays
\* within the minimum and the maximum of the initial previous value and the
\* last elements processed so far.
C10_Bounded ==
    Fed =>
        /\ (IsFinite(chain.old) /\ IsFinite(chain.last)) =>
              /\ FGe(chain.last, chain.old) => FGe(chain.prev, chain.old)
              /\ FLe(chain.last, chain.old) => FLe(chain.prev, chain.old)
        /\ ExactStep(chain.last, chain.old) =>
              Between(chain.prev, chain.old, chain.last)
        /\ chain.exact => Between(chain.prev, chain.lo, chain.hi)

C10_Witness ==
    /\ chain.steps >= 2
    /\ chain.exact
    /\ chain.n >= 2
    /\ FLt(chain.lo, chain.prev)
    /\ FLt(chain.prev, chain.hi)
    /\ chain.prev # chain.old
    /\ chain.prev # chain.last
====
